---- MODULE Spec2Model ----
(***************************************************************************)
(* Model of the WASI regression-test generator (src/src/wasitests.rs).     *)
(*                                                                         *)
(* Three state machines share this module:                                 *)
(*   SpecParse  extract_args_from_source_file, one step per directive line *)
(*   SpecWast   WasiTest::into_wasi_wast applied to bounded TestCases      *)
(*   Spec       build / compile / generate_native_output /                 *)
(*              compile_wasm_for_version over a file system and a log of    *)
(*              the child processes that were spawned                      *)
(*                                                                         *)
(* Text is a sequence of one-character strings, so that starts_with,       *)
(* lines, split_whitespace, split and pop are computed as the code does.   *)
(***************************************************************************)
EXTENDS Integers, Sequences, FiniteSets, TLC

VARIABLES
    \* ---- extract_args_from_source_file ----
    source_code,    \* the &str argument
    ppc,            \* position in the parser: "idle","start","loop","returned","panicked","done"
    line_no,        \* index (in source_code.lines()) of the last line the iterator yielded
    args,           \* the WasiOptions being filled (line 339)
    warnings,       \* line numbers for which an eprintln! warning was issued
    ret,            \* the Option<WasiOptions> returned: "pending", "None" or "Some"
    options,        \* the caller's options after unwrap_or_default (line 172)
    \* ---- WasiTest::into_wasi_wast ----
    test,           \* the WasiTest (self)
    out,            \* the String returned, as a sequence of fragments
    wpc,            \* "idle", "ready" or "done"
    \* ---- build / compile / generate_native_output / compile_wasm_for_version ----
    pc,             \* position of the single thread of build
    entries,        \* the paths glob(WASI_TEST_SRC_DIR) yields, in its order
    wasi_versions,  \* the &[WasiVersion] argument of build
    fi,             \* index in entries of the file compile is (or will be) called on
    vi,             \* index in wasi_versions of the version being built
    frame,          \* the locals of compile and of the functions it calls
    fs,             \* the file system: path -> content
    dirs,           \* the directories that exist
    log             \* child processes spawned and files written, in order

parseVars == <<source_code, ppc, line_no, args, warnings, ret, options>>
wastVars == <<test, out, wpc>>
pipeVars == <<pc, entries, wasi_versions, fi, vi, frame, fs, dirs, log>>
vars == <<parseVars, wastVars, pipeVars>>

(***************************************************************************)
(* Bounds                                                                  *)
(***************************************************************************)
MaxArgLines == 2      \* lines that follow the first line of a source text
MaxList == 2          \* entries in one option list of a serialized TestCase
MaxFiles == 2         \* source files the glob yields
MaxVersions == 2      \* target versions passed to build

(***************************************************************************)
(* Text helpers (Rust str methods)                                         *)
(***************************************************************************)
\* str::starts_with
StartsWith(s, p) ==
    /\ Len(s) >= Len(p)
    /\ SubSeq(s, 1, Len(p)) = p

\* index of the first character of s that is in seps, 0 when there is none
FirstIdx(s, seps) ==
    IF \E i \in 1..Len(s) : s[i] \in seps
    THEN CHOOSE i \in 1..Len(s) : s[i] \in seps /\ \A j \in 1..(i-1) : s[j] \notin seps
    ELSE 0

\* str::split(sep): empty pieces are kept, "" splits into one empty piece
RECURSIVE Split(_, _)
Split(s, seps) ==
    LET i == FirstIdx(s, seps)
    IN  IF i = 0 THEN <<s>>
        ELSE <<SubSeq(s, 1, i-1)>> \o Split(SubSeq(s, i+1, Len(s)), seps)

\* str::lines: split on the line feed, a final empty piece is not a line
Lines(s) ==
    LET parts == Split(s, {"\n"})
    IN  IF parts[Len(parts)] = <<>> THEN SubSeq(parts, 1, Len(parts)-1) ELSE parts

IsNonEmpty(t) == t # <<>>

\* str::split_whitespace: pieces between runs of white space, none empty
SplitWhitespace(s) == SelectSeq(Split(s, {" ", "\t"}), IsNonEmpty)

\* Iterator::skip(1)
Skip1(xs) == IF xs = <<>> THEN <<>> ELSE Tail(xs)

\* number of characters of s that are in seps
RECURSIVE CountIn(_, _)
CountIn(s, seps) ==
    IF s = <<>> THEN 0
    ELSE (IF Head(s) \in seps THEN 1 ELSE 0) + CountIn(Tail(s), seps)

RECURSIVE Join(_, _)
Join(xs, sep) ==
    IF xs = <<>> THEN <<>>
    ELSE IF Len(xs) = 1 THEN xs[1]
    ELSE xs[1] \o sep \o Join(Tail(xs), sep)

(***************************************************************************)
(* Literals of the parser                                                  *)
(***************************************************************************)
Marker == <<"/", "/", " ", "W", "A", "S", "I", ":">>
CommentPrefix == <<"/", "/", " ">>
K_mapdir == <<"m", "a", "p", "d", "i", "r">>
K_env == <<"e", "n", "v">>
K_dir == <<"d", "i", "r">>
K_arg == <<"a", "r", "g">>
K_tempdir == <<"t", "e", "m", "p", "d", "i", "r">>
K_foo == <<"f", "o", "o">>

\* WasiOptions::default()
DefaultOptions == [mapdir |-> <<>>, env |-> <<>>, args |-> <<>>, dir |-> <<>>, tempdir |-> <<>>]

(***************************************************************************)
(* extract_args_from_source_file                                           *)
(***************************************************************************)
\* mutant: any line comment at the top of the file activates the parser
HasMarker_AnyComment(src) == StartsWith(src, <<"/", "/">>)

\* line 338
HasMarker(src) == StartsWith(src, Marker)

\* lines 340-343: the next line the iterator yields at or after index from,
\* 0 when take_while ends the iteration
NextArgLine(lines, from) ==
    IF from <= Len(lines) /\ StartsWith(lines[from], CommentPrefix) THEN from ELSE 0

\* lines 345-350
Tokenized(arg_line) == Skip1(SplitWhitespace(arg_line))

\* mutant: split_n(2): everything after the first separator is the value
SplitPayload_SplitN(payload, sep) ==
    LET i == FirstIdx(payload, {sep})
    IN  IF i = 0 THEN <<payload>>
        ELSE <<SubSeq(payload, 1, i-1), SubSeq(payload, i+1, Len(payload))>>

\* lines 363 and 373: payload.split(sep).collect()
SplitPayload(payload, sep) == Split(payload, {sep})

Panic(a) == [args |-> a, warned |-> FALSE, panicked |-> TRUE]
Warn(a) == [args |-> a, warned |-> TRUE, panicked |-> FALSE]
Okay(a) == [args |-> a, warned |-> FALSE, panicked |-> FALSE]

\* lines 345-391: the body of the for loop on one line
ProcessLine(a, arg_line) ==
    LET tokenized == Tokenized(arg_line)
    IN  IF Len(tokenized) = 0 THEN Panic(a)                      \* tokenized[0], line 352
        ELSE LET cn == tokenized[1]
                 command_name == SubSeq(cn, 1, Len(cn)-1)
             IN  IF cn[Len(cn)] # ":" THEN Panic(a)              \* assert_eq!, line 353
                 ELSE IF command_name \in {K_mapdir, K_env, K_dir, K_arg, K_tempdir}
                         /\ Len(tokenized) < 2
                      THEN Panic(a)                              \* tokenized[1]
                 ELSE IF command_name = K_mapdir THEN
                      LET parts == SplitPayload(tokenized[2], ":")
                      IN  IF Len(parts) = 2
                          THEN Okay([a EXCEPT !.mapdir = Append(@, <<parts[1], parts[2]>>)])
                          ELSE Warn(a)
                 ELSE IF command_name = K_env THEN
                      LET parts == SplitPayload(tokenized[2], "=")
                      IN  IF Len(parts) = 2
                          THEN Okay([a EXCEPT !.env = Append(@, <<parts[1], parts[2]>>)])
                          ELSE Warn(a)
                 ELSE IF command_name = K_dir THEN
                      Okay([a EXCEPT !.dir = Append(@, tokenized[2])])
                 ELSE IF command_name = K_arg THEN
                      Okay([a EXCEPT !.args = Append(@, tokenized[2])])
                 ELSE IF command_name = K_tempdir THEN
                      Okay([a EXCEPT !.tempdir = Append(@, tokenized[2])])
                 ELSE Warn(a)                                    \* line 389

\* The whole function as one fold: [panicked, some, args]
RECURSIVE ExtractFrom(_, _, _)
ExtractFrom(lines, from, a) ==
    LET n == NextArgLine(lines, from)
    IN  IF n = 0 THEN [panicked |-> FALSE, some |-> TRUE, args |-> a]
        ELSE LET r == ProcessLine(a, lines[n])
             IN  IF r.panicked THEN [panicked |-> TRUE, some |-> FALSE, args |-> a]
                 ELSE ExtractFrom(lines, n + 1, r.args)

\* lines 337-396
extract_args_from_source_file(src) ==
    IF HasMarker(src) THEN ExtractFrom(Lines(src), 2, DefaultOptions)
    ELSE [panicked |-> FALSE, some |-> FALSE, args |-> DefaultOptions]

(***************************************************************************)
(* Source texts the parser is run on                                       *)
(***************************************************************************)
L(name, payload) == CommentPrefix \o name \o <<":">> \o <<" ">> \o payload

FirstLines ==
    { Marker,
      Marker \o <<" ", "x">>,
      <<"/", "/", "W", "A", "S", "I", ":">>,
      <<"/", "/", " ", "W", "A", "S", "I">>,
      <<"f", "n">>,
      L(K_dir, <<"a">>) }

ArgLines ==
    { L(K_mapdir, <<"a", ":", "b">>),
      L(K_mapdir, <<"a", "b">>),
      L(K_mapdir, <<"a", ":", "b", ":", "c">>),
      L(K_mapdir, <<"a", ":">>),
      CommentPrefix \o K_mapdir \o <<":">>,
      L(K_env, <<"n", "=", "v">>),
      L(K_env, <<"n", "v">>),
      L(K_env, <<"n", "=", "v", "=", "w">>),
      L(K_dir, <<"a">>),
      <<"/", "/", " ", " ">> \o K_arg \o <<":", " ", " ", "a", " ", "b">>,
      L(K_tempdir, <<"a">>),
      L(K_foo, <<"a">>),
      CommentPrefix \o K_foo \o <<":">>,
      CommentPrefix \o K_dir \o <<" ", "a">>,
      CommentPrefix,
      <<"/", "/">> \o K_dir \o <<":", " ", "a">>,
      <<"f", "n">>,
      <<>> }

RECURSIVE SeqsUpTo(_, _)
SeqsUpTo(S, n) ==
    IF n = 0 THEN {<<>>}
    ELSE LET shorter == SeqsUpTo(S, n - 1)
         IN  shorter \cup {Append(q, x) : q \in {p \in shorter : Len(p) = n - 1}, x \in S}

SourceTexts ==
    {<<>>} \cup
    { Join(<<f>> \o rest, <<"\n">>) \o nl :
        f \in FirstLines, rest \in SeqsUpTo(ArgLines, MaxArgLines), nl \in {<<>>, <<"\n">>} }

(***************************************************************************)
(* SpecParse: the parser as a state machine                                *)
(***************************************************************************)
IdleWast == /\ test = "none" /\ out = <<>> /\ wpc = "idle"

IdlePipe ==
    /\ pc = "idle" /\ entries = <<>> /\ wasi_versions = <<>> /\ fi = 0 /\ vi = 0
    /\ frame = "none" /\ fs = <<>> /\ dirs = {} /\ log = <<>>

InitParse ==
    /\ source_code \in SourceTexts
    /\ ppc = "start"
    /\ line_no = 1
    /\ args = DefaultOptions
    /\ warnings = <<>>
    /\ ret = "pending"
    /\ options = DefaultOptions
    /\ IdleWast
    /\ IdlePipe

\* line 338: the marker gate; without the marker the function returns None
ExtractStart ==
    /\ ppc = "start"
    /\ IF HasMarker(source_code)
       THEN /\ ppc' = "loop"
            /\ ret' = ret
       ELSE /\ ppc' = "returned"
            /\ ret' = "None"
    /\ UNCHANGED <<source_code, line_no, args, warnings, options, wastVars, pipeVars>>

\* lines 340-392: one iteration of the for loop
ExtractLine ==
    /\ ppc = "loop"
    /\ LET lines == Lines(source_code)
           n == NextArgLine(lines, line_no + 1)
       IN  /\ n # 0
           /\ LET r == ProcessLine(args, lines[n])
              IN  /\ line_no' = n
                  /\ args' = r.args
                  /\ warnings' = IF r.warned THEN Append(warnings, n) ELSE warnings
                  /\ ppc' = IF r.panicked THEN "panicked" ELSE "loop"
    /\ UNCHANGED <<source_code, ret, options, wastVars, pipeVars>>

\* line 393: the iterator is exhausted, return Some(args)
ExtractReturn ==
    /\ ppc = "loop"
    /\ NextArgLine(Lines(source_code), line_no + 1) = 0
    /\ ppc' = "returned"
    /\ ret' = "Some"
    /\ UNCHANGED <<source_code, line_no, args, warnings, options, wastVars, pipeVars>>

\* line 172: extract_args_from_source_file(&src_code).unwrap_or_default()
UnwrapOrDefault ==
    /\ ppc = "returned"
    /\ options' = IF ret = "Some" THEN args ELSE DefaultOptions
    /\ ppc' = "done"
    /\ UNCHANGED <<source_code, line_no, args, warnings, ret, wastVars, pipeVars>>

NextParse == ExtractStart \/ ExtractLine \/ ExtractReturn \/ UnwrapOrDefault

SpecParse == InitParse /\ [][NextParse]_vars

(***************************************************************************)
(* Claims about the parser (checked under SpecParse)                       *)
(***************************************************************************)
\* the line the loop body last ran on
CurrentLine == Lines(source_code)[line_no]

\* C2: the only fatal directive-line defect is a first token that does not
\* end in a colon; every other malformed line is a warning and parsing
\* continues.  Stated as: whenever the parser has panicked, the line it ran
\* on has a first token, and that token does not end in a colon.
C2_OnlyMissingColonIsFatal ==
    ppc = "panicked" =>
        LET t == Tokenized(CurrentLine)
        IN  /\ Len(t) >= 1
            /\ t[1][Len(t[1])] # ":"

\* a line "// <name>: <payload> ..." with a payload token
IsDirective(line, name) ==
    LET t == Tokenized(line)
    IN  Len(t) >= 2 /\ t[1] = name \o <<":">>

PayloadOf(line) == Tokenized(line)[2]

WellFormedPair(line, name, sep) ==
    IsDirective(line, name) /\ CountIn(PayloadOf(line), {sep}) = 1

MalformedPair(line, name, sep) ==
    IsDirective(line, name) /\ CountIn(PayloadOf(line), {sep}) # 1

PairOf(line, sep) ==
    LET p == PayloadOf(line)
        i == FirstIdx(p, {sep})
    IN  <<SubSeq(p, 1, i-1), SubSeq(p, i+1, Len(p))>>

\* the directive lines on which the loop body ran to its end
CompletedLines ==
    SubSeq(Lines(source_code), 2, IF ppc = "panicked" THEN line_no - 1 ELSE line_no)

PairsIn(lines, name, sep) ==
    LET sel == SelectSeq(lines, LAMBDA l : WellFormedPair(l, name, sep))
    IN  [i \in 1..Len(sel) |-> PairOf(sel[i], sep)]

PayloadsIn(lines, name) ==
    LET sel == SelectSeq(lines, LAMBDA l : IsDirective(l, name))
    IN  [i \in 1..Len(sel) |-> PayloadOf(sel[i])]

\* C8: a mapdir payload with exactly one colon appends exactly (a, b), an env
\* payload with exactly one '=' appends exactly (n, v); a payload with zero
\* or several separators is warned about, adds no pair and changes no other
\* field, and the later well-formed lines are still recorded in file order.
C8_PayloadPolicy ==
    LET done == CompletedLines
        all == Lines(source_code)
    IN  /\ args.mapdir = PairsIn(done, K_mapdir, ":")
        /\ args.env = PairsIn(done, K_env, "=")
        /\ args.dir = PayloadsIn(done, K_dir)
        /\ args.args = PayloadsIn(done, K_arg)
        /\ args.tempdir = PayloadsIn(done, K_tempdir)
        /\ \A n \in 2..line_no :
              (MalformedPair(all[n], K_mapdir, ":") \/ MalformedPair(all[n], K_env, "="))
                  => /\ \E w \in 1..Len(warnings) : warnings[w] = n
                     /\ ~(ppc = "panicked" /\ n = line_no)

\* a malformed pair on line 2 was warned about and the well-formed pair on
\* line 3 was recorded
C8_Witness ==
    /\ ppc = "done"
    /\ line_no = 3
    /\ warnings = <<2>>
    /\ MalformedPair(Lines(source_code)[2], K_mapdir, ":")
    /\ WellFormedPair(Lines(source_code)[3], K_env, "=")
    /\ options.env = <<PairOf(Lines(source_code)[3], "=")>>
    /\ options.mapdir = <<>>

EscapeChar(c) ==
    IF c = "\n" THEN <<"\\", "n">>
    ELSE IF c = "\"" THEN <<"\\", "\"">>
    ELSE IF c = "\\" THEN <<"\\", "\\">>
    ELSE <<c>>

RECURSIVE EscapeAll(_)
EscapeAll(s) == IF s = <<>> THEN <<>> ELSE EscapeChar(Head(s)) \o EscapeAll(Tail(s))

\* format!("{:?}", s) of a String
DebugFmt(s) == <<"\"">> \o EscapeAll(s) \o <<"\"">>

\* format!("{}", n) of an i64
DisplayInt(n) == <<ToString(n)>>

\* format!("\"{}\"", v)
Quoted(v) == <<"\"">> \o v \o <<"\"">>

\* format!("\"{}{sep}{}\"", a, b)
QuotedPair(p, sep) == <<"\"">> \o p[1] \o <<sep>> \o p[2] \o <<"\"">>

QuotedAll(xs) == Join([i \in 1..Len(xs) |-> Quoted(xs[i])], <<" ">>)
QuotedPairs(xs, sep) == Join([i \in 1..Len(xs) |-> QuotedPair(xs[i], sep)], <<" ">>)

\* lines 254-263
EnvsSection(t) ==
    IF t.options.env # <<>>
    THEN <<"\n  (envs ">> \o QuotedPairs(t.options.env, "=") \o <<")">>
    ELSE <<>>

\* lines 264-273
ArgsSection(t) ==
    IF t.options.args # <<>>
    THEN <<"\n  (args ">> \o QuotedAll(t.options.args) \o <<")">>
    ELSE <<>>

\* lines 275-284
PreopensSection(t) ==
    IF t.options.dir # <<>>
    THEN <<"\n  (preopens ">> \o QuotedAll(t.options.dir) \o <<")">>
    ELSE <<>>

\* lines 285-294
MapDirsSection(t) ==
    IF t.options.mapdir # <<>>
    THEN <<"\n  (map_dirs ">> \o QuotedPairs(t.options.mapdir, ":") \o <<")">>
    ELSE <<>>

\* lines 295-304
TempDirsSection(t) ==
    IF t.options.tempdir # <<>>
    THEN <<"\n  (temp_dirs ">> \o QuotedAll(t.options.tempdir) \o <<")">>
    ELSE <<>>

\* line 306
AssertReturnSection(t) ==
    <<"\n  (assert_return (i64.const ">> \o DisplayInt(t.result) \o <<"))">>

\* lines 308-310
AssertStdoutSection(t) ==
    IF t.stdout # <<>>
    THEN <<"\n  (assert_stdout ">> \o DebugFmt(t.stdout) \o <<")">>
    ELSE <<>>

\* lines 311-313
AssertStderrSection(t) ==
    IF t.stderr # <<>>
    THEN <<"\n  (assert_stderr ">> \o DebugFmt(t.stderr) \o <<")">>
    ELSE <<>>

\* mutant: the args section is emitted before the envs section and the
\* assertions on the output streams before the exit code
into_wasi_wast_Reordered(t) ==
    <<"(wasi_test \"">> \o t.wasm_prog_name \o <<"\"">>
    \o ArgsSection(t) \o EnvsSection(t) \o PreopensSection(t) \o MapDirsSection(t)
    \o TempDirsSection(t) \o AssertStdoutSection(t) \o AssertReturnSection(t)
    \o AssertStderrSection(t) \o <<"\n)">>

\* lines 252-318
into_wasi_wast(t) ==
    <<"(wasi_test \"">> \o t.wasm_prog_name \o <<"\"">>
    \o EnvsSection(t) \o ArgsSection(t) \o PreopensSection(t) \o MapDirsSection(t)
    \o TempDirsSection(t) \o AssertReturnSection(t) \o AssertStdoutSection(t)
    \o AssertStderrSection(t) \o <<"\n)">>

(***************************************************************************)
(* SpecWast: the serializer applied to bounded TestCases                   *)
(***************************************************************************)
IdleParse ==
    /\ source_code = <<>> /\ ppc = "idle" /\ line_no = 0 /\ args = DefaultOptions
    /\ warnings = <<>> /\ ret = "pending" /\ options = DefaultOptions

PairValues == { <<<<"a">>, <<"b", "c">>>> }
TextValues == { <<"a">>, <<"-", "f">> }
OutputTexts == { <<>>, <<"h", "i", "\n">>, <<"\"", "\\">> }
ExitCodes == { 0, 101 }
ProgNames == { <<"a", ".", "w", "a", "s", "m">> }

TestCases ==
    [ wasm_prog_name : ProgNames,
      stdout : OutputTexts,
      stderr : OutputTexts,
      result : ExitCodes,
      options : [ mapdir : SeqsUpTo(PairValues, MaxList),
                  env : SeqsUpTo({<<<<"n">>, <<"v">>>>}, MaxList),
                  args : SeqsUpTo(TextValues, MaxList),
                  dir : SeqsUpTo({<<"a">>}, MaxList),
                  tempdir : SeqsUpTo({<<"a">>}, MaxList) ] ]

InitWast ==
    /\ test \in TestCases
    /\ out = <<>>
    /\ wpc = "ready"
    /\ IdleParse
    /\ IdlePipe

\* line 197: let test_serialized = test.into_wasi_wast()
Serialize ==
    /\ wpc = "ready"
    /\ out' = into_wasi_wast(test)
    /\ wpc' = "done"
    /\ UNCHANGED <<test, parseVars, pipeVars>>

NextWast == Serialize

SpecWast == InitWast /\ [][NextWast]_vars

(***************************************************************************)
(* Claim about the serializer (checked under SpecWast)                     *)
(***************************************************************************)
SectionOpeners ==
    << "\n  (envs ", "\n  (args ", "\n  (preopens ", "\n  (map_dirs ", "\n  (temp_dirs ",
       "\n  (assert_return (i64.const ", "\n  (assert_stdout ", "\n  (assert_stderr " >>

\* whether the TestCase has something for the k-th section
HasContent(t, k) ==
    CASE k = 1 -> t.options.env # <<>>
      [] k = 2 -> t.options.args # <<>>
      [] k = 3 -> t.options.dir # <<>>
      [] k = 4 -> t.options.mapdir # <<>>
      [] k = 5 -> t.options.tempdir # <<>>
      [] k = 6 -> TRUE
      [] k = 7 -> t.stdout # <<>>
      [] k = 8 -> t.stderr # <<>>

Positions(text, fragment) == { i \in 1..Len(text) : text[i] = fragment }

\* C7: the output is the header, then exactly one section for each non-empty
\* category and none for an empty one, in the order envs, args, preopens,
\* map_dirs, temp_dirs, assert_return, assert_stdout, assert_stderr, with
\* assert_return always there, then the closing parenthesis; with nothing to
\* report it is exactly header, assert_return, closing parenthesis.
C7_SectionsInOrder ==
    wpc = "done" =>
        /\ SubSeq(out, 1, Len(test.wasm_prog_name) + 2)
              = <<"(wasi_test \"">> \o test.wasm_prog_name \o <<"\"">>
        /\ \A k \in 1..8 :
              Cardinality(Positions(out, SectionOpeners[k]))
                  = IF HasContent(test, k) THEN 1 ELSE 0
        /\ \A k, l \in 1..8 :
              (k < l /\ HasContent(test, k) /\ HasContent(test, l)) =>
                  \A i \in Positions(out, SectionOpeners[k]) :
                      \A j \in Positions(out, SectionOpeners[l]) : i < j
        /\ \A k \in 1..8 :
              \A i \in Positions(out, SectionOpeners[k]) : i > Len(test.wasm_prog_name) + 2
        /\ Positions(out, "\n)") = {Len(out)}
        /\ (\A k \in {1, 2, 3, 4, 5, 7, 8} : ~HasContent(test, k)) =>
              out = <<"(wasi_test \"">> \o test.wasm_prog_name \o <<"\"">>
                    \o <<"\n  (assert_return (i64.const ", ToString(test.result), "))">>
                    \o <<"\n)">>

\* a TestCase with every category filled was serialized
C7_Witness ==
    /\ wpc = "done"
    /\ \A k \in 1..8 : HasContent(test, k)
    /\ Len(test.options.args) = 2
    /\ Len(out) > 20

(***************************************************************************)
(* Paths (std::path) and strings of the pipeline                           *)
(***************************************************************************)
\* index of the last character of s that is in seps, 0 when there is none
LastIdx(s, seps) ==
    IF \E i \in 1..Len(s) : s[i] \in seps
    THEN CHOOSE i \in 1..Len(s) : s[i] \in seps /\ \A j \in (i+1)..Len(s) : s[j] \notin seps
    ELSE 0

\* Path::join with a relative component
PathJoin(a, b) == a \o <<"/">> \o b

\* Path::file_name
FileName(p) == SubSeq(p, LastIdx(p, {"/"}) + 1, Len(p))

\* Path::parent
Parent(p) == SubSeq(p, 1, LastIdx(p, {"/"}) - 1)

\* Path::file_stem: the file name up to its last dot; the whole name when it
\* has no dot or only a leading one
FileStem(p) ==
    LET n == FileName(p)
        d == LastIdx(n, {"."})
    IN  IF d <= 1 THEN n ELSE SubSeq(n, 1, d - 1)

\* PathBuf::set_extension: the file name is cut back to its stem, then "."
\* and the extension are added
SetExtension(p, ext) == SubSeq(p, 1, LastIdx(p, {"/"})) \o FileStem(p) \o <<".">> \o ext

LowerChar(c) == IF c = "F" THEN "f" ELSE c

\* str::to_lowercase
ToLowercase(s) == [i \in 1..Len(s) |-> LowerChar(s[i])]

\* str::ends_with
EndsWith(s, p) == Len(s) >= Len(p) /\ SubSeq(s, Len(s) - Len(p) + 1, Len(s)) = p

EXT_rs == <<".", "r", "s">>
EXT_wasm == <<"w", "a", "s", "m">>
EXT_wast == <<"w", "a", "s", "t">>
FeatureHeader == <<"#![feature(wasi_ext)]", "\n">>

\* tempfile::TempDir::new(), line 223
TempDir == <<"/", "t">>
\* the directory of WASI_TEST_SRC_DIR, line 221
SrcDir == <<"w", "/", "t">>
\* EXECUTE_DIR, line 71
ExecuteDir == <<"w">>

\* the WasiVersion values and their two strings (module wasi_version is not
\* part of wasitests.rs): an opaque identifier with a directory name and a
\* toolchain selector
Versions == {"Unstable", "Snapshot1"}
get_directory_name(version) == IF version = "Unstable" THEN <<"u">> ELSE <<"s">>
get_compiler_toolchain(version) == IF version = "Unstable" THEN <<"nightly">> ELSE <<"stable">>

\* util::print_info_on_error (module util is not part of wasitests.rs): after
\* the design's error taxonomy, the captured output of a child that did not
\* succeed is reported and the run does not go on
print_info_on_error(output) ==
    IF output.signaled \/ output.code # 0 THEN "abort" ELSE "continue"

(***************************************************************************)
(* The corpus: what the glob can yield and what the files hold             *)
(***************************************************************************)
\* file names matching *.rs, in the order glob yields them (byte order)
GlobOrder ==
    << <<"F", ".", "r", "s">>,
       <<"f", ".", "r", "s">>,
       <<"f", ".", "x", ".", "r", "s">>,
       <<"g", ".", "r", "s">> >>

SrcPlain == <<"f", "n">>
SrcOptions ==
    Join(<<Marker, L(K_mapdir, <<"o", ":", "p">>), L(K_arg, <<"-", "f">>), <<"f", "n">>>>, <<"\n">>)
SrcCorrupt == Join(<<Marker, CommentPrefix \o K_dir, <<"f", "n">>>>, <<"\n">>)
CorpusTexts == {SrcPlain, SrcOptions, SrcCorrupt}

\* the elements of a set of integers in increasing order
SortedSeq(S) ==
    CHOOSE q \in [1..Cardinality(S) -> S] :
        \A i, j \in 1..Cardinality(S) : i < j => q[i] < q[j]

DistinctSeqs(S, n) == { q \in SeqsUpTo(S, n) : \A i, j \in 1..Len(q) : i # j => q[i] # q[j] }

(***************************************************************************)
(* Child processes as black boxes                                          *)
(***************************************************************************)
Valid(text) == [valid |-> TRUE, text |-> text]
Invalid == [valid |-> FALSE, text |-> <<"?">>]

Exit(code) == [signaled |-> FALSE, code |-> code, stdout |-> Valid(<<>>), stderr |-> Valid(<<>>)]

\* what a compiler or a post-processing tool can end with
ToolOutputs == { Exit(0), Exit(1) }

\* what the native program can end with
ProgramOutputs ==
    [ signaled : BOOLEAN,
      code : {0, 1},
      stdout : {Valid(<<>>), Valid(<<"h", "i", "\n">>), Invalid},
      stderr : {Valid(<<>>), Invalid} ]

Success(output) == ~output.signaled /\ output.code = 0

\* the argument that follows the output flag
OutputArg(argv) == argv[(CHOOSE i \in 1..Len(argv) : argv[i] = <<"-o">>) + 1]

Put(files, path, content) ==
    [p \in (DOMAIN files) \cup {path} |-> IF p = path THEN content ELSE files[p]]

Spawn(stage, prog, argv, output) ==
    [op |-> "spawn", stage |-> stage, prog |-> prog, argv |-> argv, output |-> output,
     file |-> frame.file, version |-> frame.version]

Wrote(stage, path, content) ==
    [op |-> "write", stage |-> stage, path |-> path, content |-> content,
     file |-> frame.file, version |-> frame.version]

Returned(path) ==
    [op |-> "return", stage |-> "wasm_return", path |-> path,
     file |-> frame.file, version |-> frame.version]

EmptyFrame ==
    [ file |-> <<>>, version |-> "native", rs_mod_name |-> <<>>, base_dir |-> <<>>,
      options |-> DefaultOptions, executable_path |-> <<>>,
      stdout |-> <<>>, stderr |-> <<>>, result |-> 0,
      wasm_prog_name |-> <<>>, test_serialized |-> <<>>,
      out_dir |-> <<>>, wasm_out_name |-> <<>>, file_contents |-> <<>>,
      temp_wasi_rs_file_name |-> <<>> ]

(***************************************************************************)
(* Where each call site goes after the child process has ended             *)
(***************************************************************************)
\* lines 42-49
AfterNativeCompile(output) ==
    IF print_info_on_error(output) = "abort" THEN "aborted" ELSE "set_permissions"

\* mutant: the exit status of the native program is not looked at
AfterNativeExecute_Unchecked(output) ==
    IF ~output.stdout.valid THEN "aborted"
    ELSE IF ~output.stderr.valid THEN "aborted"
    ELSE IF output.signaled THEN "aborted"
    ELSE "build_test"

\* mutant: the captured output is decoded with from_utf8_lossy
AfterNativeExecute_Lossy(output) ==
    IF print_info_on_error(output) = "abort" THEN "aborted"
    ELSE IF output.signaled THEN "aborted"
    ELSE "build_test"

\* lines 72-80
AfterNativeExecute(output) ==
    IF print_info_on_error(output) = "abort" THEN "aborted"     \* line 76
    ELSE IF ~output.stdout.valid THEN "aborted"                  \* line 78
    ELSE IF ~output.stderr.valid THEN "aborted"                  \* line 79
    ELSE IF output.signaled THEN "aborted"                       \* line 80
    ELSE "build_test"

\* lines 144-145
AfterWasmCompile(output) ==
    IF print_info_on_error(output) = "abort" THEN "aborted" ELSE "wasm_strip"

\* mutant: the result of wasm-strip is not looked at
AfterWasmStrip_Unchecked(output) == "wasm_opt"

\* lines 152-156
AfterWasmStrip(output) ==
    IF print_info_on_error(output) = "abort" THEN "aborted" ELSE "wasm_opt"

\* lines 157-164
AfterWasmOpt(output) ==
    IF print_info_on_error(output) = "abort" THEN "aborted" ELSE "wasm_return"

(***************************************************************************)
(* Spec: build                                                             *)
(***************************************************************************)
Init ==
    /\ \E S \in SUBSET (1..Len(GlobOrder)) :
          /\ Cardinality(S) <= MaxFiles
          /\ entries = [i \in 1..Cardinality(S) |-> PathJoin(SrcDir, GlobOrder[SortedSeq(S)[i]])]
    /\ \E texts \in [ {entries[i] : i \in 1..Len(entries)} -> CorpusTexts ] :
          fs = [p \in DOMAIN texts |-> [kind |-> "source", text |-> texts[p]]]
    /\ wasi_versions \in DistinctSeqs(Versions, MaxVersions)
    /\ dirs = {TempDir, SrcDir, ExecuteDir}
    /\ pc = "glob"
    /\ fi = 1
    /\ vi = 0
    /\ frame = EmptyFrame
    /\ log = <<>>
    /\ IdleParse
    /\ IdleWast

\* lines 224-228 and 171-182: the next glob entry is handed to compile, which
\* reads the file, parses its directives and derives rs_mod_name
CompileStart ==
    /\ pc = "glob"
    /\ fi <= Len(entries)
    /\ LET file == entries[fi]
           src_code == fs[file].text
           parsed == extract_args_from_source_file(src_code)
       IN  IF parsed.panicked \/ ~EndsWith(file, EXT_rs)
           THEN /\ pc' = "aborted"
                /\ frame' = [EmptyFrame EXCEPT !.file = file]
           ELSE /\ pc' = "native_compile"
                /\ frame' = [EmptyFrame EXCEPT
                                !.file = file,
                                !.options = IF parsed.some THEN parsed.args ELSE DefaultOptions,
                                !.rs_mod_name = FileStem(ToLowercase(file)),
                                !.base_dir = Parent(file)]
    /\ UNCHANGED <<entries, wasi_versions, fi, vi, fs, dirs, log, parseVars, wastVars>>

\* lines 36-49: rustc <file> -o <args...> <executable_path>
NativeCompile ==
    /\ pc = "native_compile"
    /\ LET executable_path == PathJoin(TempDir, frame.rs_mod_name)
           argv == <<frame.file, <<"-o">>>> \o frame.options.args \o <<executable_path>>
       IN  \E native_out \in ToolOutputs :
              /\ fs' = IF Success(native_out)
                       THEN Put(fs, OutputArg(argv), [kind |-> "exe", of |-> frame.file, mode |-> "default"])
                       ELSE fs
              /\ log' = Append(log, Spawn("native_compile", "rustc", argv, native_out))
              /\ frame' = [frame EXCEPT !.executable_path = executable_path]
              /\ pc' = AfterNativeCompile(native_out)
    /\ UNCHANGED <<entries, wasi_versions, fi, vi, dirs, parseVars, wastVars>>

\* lines 51-64: metadata().expect("native executable"), then mode 0o766
SetPermissions ==
    /\ pc = "set_permissions"
    /\ IF frame.executable_path \in DOMAIN fs
       THEN /\ fs' = [fs EXCEPT ![frame.executable_path].mode = "0o766"]
            /\ pc' = "native_execute"
       ELSE /\ fs' = fs
            /\ pc' = "aborted"
    /\ UNCHANGED <<entries, wasi_versions, fi, vi, frame, dirs, log, parseVars, wastVars>>

\* lines 66-86: the executable is run in EXECUTE_DIR and its output decoded
NativeExecute ==
    /\ pc = "native_execute"
    /\ \E result \in ProgramOutputs :
          /\ log' = Append(log, Spawn("native_execute", frame.executable_path, <<>>, result))
          /\ pc' = AfterNativeExecute(result)
          /\ frame' = [frame EXCEPT !.stdout = result.stdout.text,
                                    !.stderr = result.stderr.text,
                                    !.result = result.code]
    /\ UNCHANGED <<entries, wasi_versions, fi, vi, fs, dirs, parseVars, wastVars>>

\* lines 190-198: the WasiTest is built and serialized once per source file
BuildTest ==
    /\ pc = "build_test"
    /\ LET wasm_prog_name == frame.rs_mod_name \o <<".">> \o EXT_wasm
           t == [wasm_prog_name |-> wasm_prog_name, stdout |-> frame.stdout,
                 stderr |-> frame.stderr, result |-> frame.result, options |-> frame.options]
       IN  frame' = [frame EXCEPT !.wasm_prog_name = wasm_prog_name,
                                  !.test_serialized = into_wasi_wast(t)]
    /\ IF Len(wasi_versions) = 0
       THEN /\ pc' = "glob"
            /\ fi' = fi + 1
            /\ vi' = 0
       ELSE /\ pc' = "write_test"
            /\ fi' = fi
            /\ vi' = 1
    /\ UNCHANGED <<entries, wasi_versions, fs, dirs, log, parseVars, wastVars>>

\* lines 202-213: the output directory is created when absent and the
\* assertion file written into it
WriteTestOutput ==
    /\ pc = "write_test"
    /\ LET version == wasi_versions[vi]
           out_dir == PathJoin(PathJoin(frame.base_dir, <<".", ".">>), get_directory_name(version))
           wast_out_name == SetExtension(PathJoin(out_dir, frame.rs_mod_name), EXT_wast)
           content == [kind |-> "wast", text |-> frame.test_serialized, of |-> frame.file]
           frame1 == [frame EXCEPT !.version = version, !.out_dir = out_dir]
       IN  /\ dirs' = dirs \cup {out_dir}
           /\ fs' = Put(fs, wast_out_name, content)
           /\ frame' = frame1
           /\ log' = Append(log, [op |-> "write", stage |-> "write_test", path |-> wast_out_name,
                                  content |-> content, file |-> frame.file, version |-> version])
    /\ pc' = "wasm_read"
    /\ UNCHANGED <<entries, wasi_versions, fi, vi, parseVars, wastVars>>

\* lines 99-113: out_dir is created when absent, wasm_out_name is derived
\* and the source file is read
ReadContents ==
    /\ pc = "wasm_read"
    /\ dirs' = dirs \cup {frame.out_dir}
    /\ frame' = [frame EXCEPT
                    !.wasm_out_name = SetExtension(PathJoin(frame.out_dir, frame.rs_mod_name), EXT_wasm),
                    !.file_contents = fs[frame.file].text]
    /\ pc' = "write_scratch"
    /\ UNCHANGED <<entries, wasi_versions, fi, vi, fs, log, parseVars, wastVars>>

\* lines 115-125: the scratch file holds the feature header and the source
WriteScratch ==
    /\ pc = "write_scratch"
    /\ LET name == PathJoin(TempDir, <<"wasi_modified_version_">> \o frame.rs_mod_name \o EXT_rs)
           content == [kind |-> "source", text |-> FeatureHeader \o frame.file_contents]
       IN  /\ fs' = Put(fs, name, content)
           /\ frame' = [frame EXCEPT !.temp_wasi_rs_file_name = name]
           /\ log' = Append(log, Wrote("write_scratch", name, content))
    /\ pc' = "wasm_compile"
    /\ UNCHANGED <<entries, wasi_versions, fi, vi, dirs, parseVars, wastVars>>

\* lines 132-149: rustc +<toolchain> --target=wasm32-wasi -C opt-level=z <scratch> -o <wasm>
WasmCompile ==
    /\ pc = "wasm_compile"
    /\ LET argv == << <<"+">> \o get_compiler_toolchain(frame.version), <<"--target=wasm32-wasi">>,
                      <<"-C">>, <<"opt-level=z">>, frame.temp_wasi_rs_file_name,
                      <<"-o">>, frame.wasm_out_name >>
       IN  \E wasm_compilation_out \in ToolOutputs :
              /\ fs' = IF Success(wasm_compilation_out)
                       THEN Put(fs, OutputArg(argv),
                                [kind |-> "wasm", of |-> frame.file,
                                 text |-> fs[frame.temp_wasi_rs_file_name].text,
                                 stripped |-> FALSE, optimized |-> FALSE])
                       ELSE fs
              /\ log' = Append(log, Spawn("wasm_compile", "rustc", argv, wasm_compilation_out))
              /\ pc' = AfterWasmCompile(wasm_compilation_out)
    /\ UNCHANGED <<entries, wasi_versions, fi, vi, frame, dirs, parseVars, wastVars>>

\* lines 152-156: wasm-strip <wasm>, in place; it cannot succeed on a file
\* that is not there
WasmStrip ==
    /\ pc = "wasm_strip"
    /\ LET argv == <<frame.wasm_out_name>>
       IN  \E wasm_strip_out \in ToolOutputs :
              /\ Success(wasm_strip_out) => argv[1] \in DOMAIN fs
              /\ fs' = IF Success(wasm_strip_out)
                       THEN [fs EXCEPT ![argv[1]].stripped = TRUE]
                       ELSE fs
              /\ log' = Append(log, Spawn("wasm_strip", "wasm-strip", argv, wasm_strip_out))
              /\ pc' = AfterWasmStrip(wasm_strip_out)
    /\ UNCHANGED <<entries, wasi_versions, fi, vi, frame, dirs, parseVars, wastVars>>

\* lines 157-164: wasm-opt -Oz <wasm> -o <wasm>
WasmOpt ==
    /\ pc = "wasm_opt"
    /\ LET argv == << <<"-Oz">>, frame.wasm_out_name, <<"-o">>, frame.wasm_out_name >>
       IN  \E wasm_opt_out \in ToolOutputs :
              /\ Success(wasm_opt_out) => argv[2] \in DOMAIN fs
              /\ fs' = IF Success(wasm_opt_out)
                       THEN Put(fs, OutputArg(argv), [fs[argv[2]] EXCEPT !.optimized = TRUE])
                       ELSE fs
              /\ log' = Append(log, Spawn("wasm_opt", "wasm-opt", argv, wasm_opt_out))
              /\ pc' = AfterWasmOpt(wasm_opt_out)
    /\ UNCHANGED <<entries, wasi_versions, fi, vi, frame, dirs, parseVars, wastVars>>

\* lines 166 and 216-218: Ok(wasm_out_name); the closure ends and the
\* iterator goes to the next version, or compile returns to build's loop
WasmReturn ==
    /\ pc = "wasm_return"
    /\ log' = Append(log, Returned(frame.wasm_out_name))
    /\ IF vi < Len(wasi_versions)
       THEN /\ vi' = vi + 1
            /\ fi' = fi
            /\ pc' = "write_test"
       ELSE /\ vi' = 0
            /\ fi' = fi + 1
            /\ pc' = "glob"
    /\ UNCHANGED <<entries, wasi_versions, frame, fs, dirs, parseVars, wastVars>>

\* lines 232-234: the glob is exhausted; temp_dir is dropped, which removes
\* the directory and what is in it
BuildDone ==
    /\ pc = "glob"
    /\ fi > Len(entries)
    /\ fs' = [p \in {q \in DOMAIN fs : ~StartsWith(q, TempDir \o <<"/">>)} |-> fs[p]]
    /\ dirs' = dirs \ {TempDir}
    /\ pc' = "done"
    /\ UNCHANGED <<entries, wasi_versions, fi, vi, frame, log, parseVars, wastVars>>

Next ==
    \/ CompileStart
    \/ NativeCompile
    \/ SetPermissions
    \/ NativeExecute
    \/ BuildTest
    \/ WriteTestOutput
    \/ ReadContents
    \/ WriteScratch
    \/ WasmCompile
    \/ WasmStrip
    \/ WasmOpt
    \/ WasmReturn
    \/ BuildDone

Spec == Init /\ [][Next]_vars

(***************************************************************************)
(* Claims about the pipeline (checked under Spec)                          *)
(***************************************************************************)
IsSpawn(e, stages) == e.op = "spawn" /\ e.stage \in stages

LastEvent == log[Len(log)]

C3_OutputFlagNamesExecutable ==
    \A i \in 1..Len(log) :
        IsSpawn(log[i], {"native_compile"}) =>
            LET argv == log[i].argv
                executable_path == PathJoin(TempDir, FileStem(ToLowercase(log[i].file)))
                passed == extract_args_from_source_file(fs[log[i].file].text).args.args
            IN  /\ OutputArg(argv) = executable_path
                /\ argv[1] = log[i].file
                /\ \A k \in 1..Len(passed) : \E n \in 1..Len(argv) : argv[n] = passed[k]

\* the binary name an assertion file names: the text between the quotes of
\* its header
NamedBinary(text) ==
    LET rest == SubSeq(text, 2, Len(text))
    IN  SubSeq(rest, 1, FirstIdx(rest, {"\""}) - 1)

OutDirOf(file, version) == PathJoin(PathJoin(Parent(file), <<".", ".">>), get_directory_name(version))

\* C4: after a successful run every (source file, version) pair has exactly
\* one assertion file and one binary of its own in the version's directory,
\* with the same base name, the assertion file naming that binary; no two
\* source files share or overwrite an output file.
C4_OneOutputPairPerFileAndVersion ==
    pc = "done" =>
        \A i \in 1..Len(entries) : \A k \in 1..Len(wasi_versions) :
            LET out_dir == OutDirOf(entries[i], wasi_versions[k])
                mine == { p \in DOMAIN fs : Parent(p) = out_dir /\ fs[p].of = entries[i] }
            IN  \E wast \in mine : \E wasm \in mine :
                    /\ mine = {wast, wasm}
                    /\ fs[wast].kind = "wast"
                    /\ fs[wasm].kind = "wasm"
                    /\ FileName(wast) = FileStem(wast) \o <<".">> \o EXT_wast
                    /\ FileName(wasm) = FileStem(wast) \o <<".">> \o EXT_wasm
                    /\ NamedBinary(fs[wast].text) = FileName(wasm)

C6_UnrepresentableOutputAborts ==
    \A i \in 1..Len(log) :
        ( /\ IsSpawn(log[i], {"native_execute"})
          /\ \/ log[i].output.signaled
             \/ ~log[i].output.stdout.valid
             \/ ~log[i].output.stderr.valid )
            => /\ pc = "aborted"
               /\ i = Len(log)
               /\ \A j \in 1..Len(log) :
                     log[j].file = log[i].file
                         => log[j].stage \in {"native_compile", "native_execute"}

\* the native program exited with code 0 and printed bytes that are no text
C6_Witness ==
    /\ pc = "aborted"
    /\ Len(log) > 0
    /\ IsSpawn(LastEvent, {"native_execute"})
    /\ ~LastEvent.output.signaled
    /\ LastEvent.output.code = 0
    /\ ~LastEvent.output.stdout.valid
    /\ Len(wasi_versions) > 0

\* the events of one call of compile_wasm_for_version that returned at log
\* index i, given the path the binary is expected at
PortableCompileSteps(i, wasm) ==
    LET e == log[i]
        mine == { j \in 1..Len(log) :
                    /\ log[j].file = e.file
                    /\ log[j].version = e.version
                    /\ log[j].stage \in {"write_scratch", "wasm_compile", "wasm_strip",
                                         "wasm_opt", "wasm_return"} }
    IN  /\ mine = (i-4)..i
        /\ i >= 5
        /\ log[i-4].stage = "write_scratch"
        /\ log[i-4].content.text = FeatureHeader \o fs[e.file].text
        /\ log[i-3].stage = "wasm_compile"
        /\ \E n \in 1..Len(log[i-3].argv) : log[i-3].argv[n] = log[i-4].path
        /\ OutputArg(log[i-3].argv) = wasm
        /\ log[i-2].stage = "wasm_strip"
        /\ log[i-2].argv = <<wasm>>
        /\ log[i-1].stage = "wasm_opt"
        /\ log[i-1].argv = << <<"-Oz">>, wasm, <<"-o">>, wasm >>
        /\ e.path = wasm

\* nothing is ever written over a discovered source file
SourcesOnlyRead ==
    /\ \A i \in 1..Len(entries) : entries[i] \in DOMAIN fs /\ fs[entries[i]].kind = "source"
    /\ \A j \in 1..Len(log) :
          /\ log[j].op = "write" => \A i \in 1..Len(entries) : log[j].path # entries[i]
          /\ (log[j].op = "spawn" /\ \E n \in 1..Len(log[j].argv) : log[j].argv[n] = <<"-o">>)
                => \A i \in 1..Len(entries) : OutputArg(log[j].argv) # entries[i]

\* C10: compile_wasm_for_version performs, in this order and each once: the
\* write of the scratch file (feature header, then the unchanged source),
\* the versioned compile of the scratch file to <out_dir>/<base_name>.wasm,
\* the strip of that path, the optimization with input and output both that
\* path; the source file is only read; the returned path is that path.
C10_PortableCompileSteps ==
    /\ SourcesOnlyRead
    /\ \A i \in 1..Len(log) :
          log[i].op = "return" =>
              PortableCompileSteps(i,
                  PathJoin(OutDirOf(log[i].file, log[i].version),
                           FileStem(ToLowercase(log[i].file)) \o <<".">> \o EXT_wasm))

\* the same steps with the path as PathBuf::set_extension derives it
PortableCompileStepsAsBuilt ==
    /\ SourcesOnlyRead
    /\ \A i \in 1..Len(log) :
          log[i].op = "return" =>
              PortableCompileSteps(i,
                  SetExtension(PathJoin(OutDirOf(log[i].file, log[i].version),
                                        FileStem(ToLowercase(log[i].file))), EXT_wasm))

====
